---- MODULE Spec2Model ----
(***************************************************************************)
(* Model of the spectral mask builders of kf_filter/util.py: kf_mask,      *)
(* wave_mask and td_mask, with the helpers they call.                      *)
(*                                                                         *)
(* Numbers.  Wavenumbers are integers.  Frequencies (cycles per day) are   *)
(* held in units of 1/20 cycle per day, so that 0.05 is 1 and 0.4   *)
(* is 8; every comparison of the source is stated on these integers after  *)
(* multiplying both sides by the same positive factor, i.e. in exact       *)
(* arithmetic.                                                             *)
(*                                                                         *)
(* Boolean fields.  A boolean DataArray is held as the set of bins <<k,f>> *)
(* of the broadcast wavenumber x frequency grid where it is True; the      *)
(* elementwise logical_and / logical_or of xarray are then set             *)
(* intersection / union.                                                   *)
(***************************************************************************)
EXTENDS Integers, Sequences, FiniteSets, TLC

VARIABLES wavenumber, frequency, call, pc, result, lists, ncalls

vars == <<wavenumber, frequency, call, pc, result, lists, ncalls>>

----------------------------------------------------------------------------
(* Optional arguments: None is the empty tuple, a supplied value v is <<v>> *)

None == <<>>

Some(v) == <<v>>

IsSome(x) == x # None

Val(x) == x[1]

----------------------------------------------------------------------------
(* Input domains *)

(* meridional mode numbers tried: 1..MaxN *)
MaxN == 2

(* calls a caller makes one after the other *)
MaxCalls == 3

FBounds == {None, Some(0), Some(1), Some(8)}

KBounds == {None, Some(-20), Some(-6), Some(6)}

HminValues == {None, Some(8)}

HmaxValues == {None, Some(90)}

WaveTypeInputs == {"kelvin", "er", "ig", "eig", "mrg", "bogus"}

SymWavenumbers == {-20, -10, -6, -3, -1, 0, 1, 3, 6, 10, 20}

SymFrequencies == {-8, -5, -2, -1, 0, 1, 2, 5, 8}

AsymWavenumbers == {-10, -6, 0, 1, 7}

AsymFrequencies == {-5, 0, 1, 2, 8}

(* An axis is a raw array or an xr.DataArray labelled by its own values. *)
RawArray(values) == [labeled |-> FALSE, values |-> values]

DataArray(values) == [labeled |-> TRUE, values |-> values]

Grids ==
    { <<RawArray(SymWavenumbers), RawArray(SymFrequencies)>>,
      <<DataArray(SymWavenumbers), DataArray(SymFrequencies)>>,
      <<RawArray(AsymWavenumbers), DataArray(AsymFrequencies)>> }

----------------------------------------------------------------------------
(* _wrap_to_xarray: a raw array becomes a DataArray labelled by its own    *)
(* values, a DataArray is passed through.                                  *)

WrapOne(x) == IF x.labeled THEN x ELSE DataArray(x.values)

_wrap_to_xarray(wn, fr) == <<WrapOne(wn), WrapOne(fr)>>

(* The bins of the broadcast of two labelled axes. *)
Bins(wn, fr) == wn.values \X fr.values

(* Variant of FreqGT: >= written for >. *)
FreqGE(wn, fr, c) == {b \in Bins(wn, fr) : b[2] >= c}

(* Elementwise comparisons of one axis against a scalar, broadcast. *)
FreqGT(wn, fr, c) == {b \in Bins(wn, fr) : b[2] > c}

FreqLT(wn, fr, c) == {b \in Bins(wn, fr) : b[2] < c}

WaveGT(wn, fr, c) == {b \in Bins(wn, fr) : b[1] > c}

WaveLT(wn, fr, c) == {b \in Bins(wn, fr) : b[1] < c}

----------------------------------------------------------------------------
(* _combine_plus_minus *)

RECURSIVE ReduceAnd(_)
ReduceAnd(l) ==
    IF Len(l) = 1 THEN l[1]
    ELSE ReduceAnd(SubSeq(l, 1, Len(l) - 1)) \cap l[Len(l)]

_combine_plus_minus(logical_plus, logical_minus) ==
    ReduceAnd(logical_plus) \cup ReduceAnd(logical_minus)

----------------------------------------------------------------------------
(* Results of a call *)

NoResult == [kind |-> "none", mask |-> {}, plus |-> <<>>, minus |-> <<>>,
             exc |-> "", msg |-> ""]

MaskResult(m) == [kind |-> "mask", mask |-> m, plus |-> <<>>, minus |-> <<>>,
                  exc |-> "", msg |-> ""]

ListsResult(p, m) == [kind |-> "lists", mask |-> {}, plus |-> p, minus |-> m,
                      exc |-> "", msg |-> ""]

Raise(e, m) == [kind |-> "error", mask |-> {}, plus |-> <<>>, minus |-> <<>>,
                exc |-> e, msg |-> m]

(* The predicate lists most recently created by kf_mask. *)
NoLists == [plus |-> <<>>, minus |-> <<>>]

----------------------------------------------------------------------------
(* kf_mask *)

MsgFmin == "Frequency \"fmin\" must be greater than 0."

MsgFmax == "Frequency \"fmax\" must be greater than 0."

MsgFminFmax == "\"fmin\" should be smaller than \"fmax\"."

MsgKminKmax == "Wavenumber \"kmin\" should be smaller than \"kmax\"."

(* Variant of NewList: the list outlives the call (a module-level list or  *)
(* a mutable default argument) and the new element is appended to it.      *)
KeptList(old, first) == old \o <<first>>

(* A list display [x] allocates a new list holding x alone, whatever list  *)
(* an earlier call left behind.                                            *)
NewList(old, first) == <<first>>

(* The fmin block: the assertion, then the two appends. *)
FminOk(fmin) == IsSome(fmin) => Val(fmin) > 0

FminPlus(wn, fr, fmin) ==
    IF IsSome(fmin) THEN <<FreqGT(wn, fr, Val(fmin))>> ELSE <<>>

FminMinus(wn, fr, fmin) ==
    IF IsSome(fmin) THEN <<FreqLT(wn, fr, -Val(fmin))>> ELSE <<>>

(* The fmax block. *)
FmaxOk(fmax) == IsSome(fmax) => Val(fmax) > 0

FmaxPlus(wn, fr, fmax) ==
    IF IsSome(fmax) THEN <<FreqLT(wn, fr, Val(fmax))>> ELSE <<>>

FmaxMinus(wn, fr, fmax) ==
    IF IsSome(fmax) THEN <<FreqGT(wn, fr, -Val(fmax))>> ELSE <<>>

(* Variants of KminMinus and KmaxMinus: the bound is not negated on the    *)
(* minus branch.                                                           *)
KminMinusUnmirrored(wn, fr, kmin) ==
    IF IsSome(kmin) THEN <<WaveLT(wn, fr, Val(kmin))>> ELSE <<>>

KmaxMinusUnmirrored(wn, fr, kmax) ==
    IF IsSome(kmax) THEN <<WaveGT(wn, fr, Val(kmax))>> ELSE <<>>

(* The kmin and kmax blocks: appends only. *)
KminPlus(wn, fr, kmin) ==
    IF IsSome(kmin) THEN <<WaveGT(wn, fr, Val(kmin))>> ELSE <<>>

KminMinus(wn, fr, kmin) ==
    IF IsSome(kmin) THEN <<WaveLT(wn, fr, -Val(kmin))>> ELSE <<>>

KmaxPlus(wn, fr, kmax) ==
    IF IsSome(kmax) THEN <<WaveLT(wn, fr, Val(kmax))>> ELSE <<>>

KmaxMinus(wn, fr, kmax) ==
    IF IsSome(kmax) THEN <<WaveGT(wn, fr, -Val(kmax))>> ELSE <<>>

(* Variant of FminFmaxOk: <= written for <. *)
FminFmaxOkLoose(fmin, fmax) ==
    (IsSome(fmin) /\ IsSome(fmax)) => Val(fmin) <= Val(fmax)

(* The two ordering assertions that follow the appends. *)
FminFmaxOk(fmin, fmax) ==
    (IsSome(fmin) /\ IsSome(fmax)) => Val(fmin) < Val(fmax)

KminKmaxOk(kmin, kmax) ==
    (IsSome(kmin) /\ IsSome(kmax)) => Val(kmin) < Val(kmax)

(* kf_mask returns [res, lists]: what the caller receives, and the two     *)
(* predicate lists as the call left them (on an assertion failure, as far  *)
(* as they had been built).                                                *)
kf_mask(old, wavenumber0, frequency0, fmin, fmax, kmin, kmax, return_individual) ==
    LET w  == _wrap_to_xarray(wavenumber0, frequency0)
        wn == w[1]
        fr == w[2]
        p0 == NewList(old.plus, FreqGT(wn, fr, 0))
        m0 == NewList(old.minus, FreqLT(wn, fr, 0))
        p1 == p0 \o FminPlus(wn, fr, fmin)
        m1 == m0 \o FminMinus(wn, fr, fmin)
        p2 == p1 \o FmaxPlus(wn, fr, fmax)
        m2 == m1 \o FmaxMinus(wn, fr, fmax)
        p4 == p2 \o KminPlus(wn, fr, kmin) \o KmaxPlus(wn, fr, kmax)
        m4 == m2 \o KminMinus(wn, fr, kmin) \o KmaxMinus(wn, fr, kmax)
    IN  IF ~FminOk(fmin)
        THEN [res |-> Raise("AssertionError", MsgFmin),
              lists |-> [plus |-> p0, minus |-> m0]]
        ELSE IF ~FmaxOk(fmax)
        THEN [res |-> Raise("AssertionError", MsgFmax),
              lists |-> [plus |-> p1, minus |-> m1]]
        ELSE IF ~FminFmaxOk(fmin, fmax)
        THEN [res |-> Raise("AssertionError", MsgFminFmax),
              lists |-> [plus |-> p4, minus |-> m4]]
        ELSE IF ~KminKmaxOk(kmin, kmax)
        THEN [res |-> Raise("AssertionError", MsgKminKmax),
              lists |-> [plus |-> p4, minus |-> m4]]
        ELSE IF return_individual
        THEN [res |-> ListsResult(p4, m4),
              lists |-> [plus |-> p4, minus |-> m4]]
        ELSE [res |-> MaskResult(_combine_plus_minus(p4, m4)),
              lists |-> [plus |-> p4, minus |-> m4]]

----------------------------------------------------------------------------
(* td_mask *)

(* 84 f + k - 22 < 0 and 84 f + k + 22 > 0 with f = b[2]/20, both sides   *)
(* times 20.                                                               *)
TdUpperPlus(wn, fr) ==
    {b \in Bins(wn, fr) : 84 * b[2] + 20 * b[1] - 440 < 0}

TdUpperMinus(wn, fr) ==
    {b \in Bins(wn, fr) : 84 * b[2] + 20 * b[1] + 440 > 0}

(* Variant of TdLowerMinus: the constant keeps the sign of the plus branch. *)
TdLowerMinusUnmirrored(wn, fr) ==
    {b \in Bins(wn, fr) : 420 * b[2] + 100 * b[1] - 520 < 0}

(* 210 f + 2.5 k - 13 > 0 and 210 f + 2.5 k + 13 < 0 with f = b[2]/20,     *)
(* both sides times 40.                                                    *)
TdLowerPlus(wn, fr) ==
    {b \in Bins(wn, fr) : 420 * b[2] + 100 * b[1] - 520 > 0}

TdLowerMinus(wn, fr) ==
    {b \in Bins(wn, fr) : 420 * b[2] + 100 * b[1] + 520 < 0}

td_mask(old, wavenumber0, frequency0, fmin, fmax, kmin, kmax) ==
    LET w  == _wrap_to_xarray(wavenumber0, frequency0)
        wn == w[1]
        fr == w[2]
        kf == kf_mask(old, wn, fr, fmin, fmax, kmin, kmax, TRUE)
        logical_plus  == kf.res.plus \o <<TdUpperPlus(wn, fr)>>
                                     \o <<TdLowerPlus(wn, fr)>>
        logical_minus == kf.res.minus \o <<TdUpperMinus(wn, fr)>>
                                      \o <<TdLowerMinus(wn, fr)>>
    IN  IF kf.res.kind = "error" THEN kf
        ELSE [res |-> MaskResult(_combine_plus_minus(logical_plus, logical_minus)),
              lists |-> [plus |-> logical_plus, minus |-> logical_minus]]

----------------------------------------------------------------------------
(* kf_filter.consts: the physical constants, the list of wave types and    *)
(* the registry of dispersion relations.                                   *)

wave_types == {"kelvin", "er", "ig", "eig", "mrg"}

(* sqrt(sqrt(g h) / beta) / radius_earth in hundredths, for g = 9.8,       *)
(* beta = 2.28e-11, radius_earth = 6.371e6: 0.0978 at h = 8, 0.1791 at     *)
(* h = 90.                                                                 *)
KScale(h) == CASE h = 8 -> 10 [] h = 90 -> 18

(* 2 pi / 86400 / sqrt(beta sqrt(g h)) / 20 in hundredths (the 1/20 turns  *)
(* the frequency unit into cycles per day): 0.2559 at h = 8, 0.1397 at     *)
(* h = 90.                                                                 *)
OmegaScale(h) == CASE h = 8 -> 26 [] h = 90 -> 14

(* operator.gt and operator.lt *)
Compare(op, a, b) == IF op = "gt" THEN a > b ELSE a < b

(* wave_func[wave_type](op, omega, k, n) at one bin; omega and k are in    *)
(* hundredths, and each relation is cleared of its positive denominators:  *)
(*   kelvin   op(omega, k)                                                 *)
(*   er       op(omega, -k / (k^2 + 2n + 1))                               *)
(*   ig       op(omega^2, k^2 + 2n + 1)                                    *)
(*   eig, mrg op(omega^2, k omega + 1)                                     *)
wave_func(wave_type, op, omega, k, n) ==
    CASE wave_type = "kelvin" -> Compare(op, omega, k)
      [] wave_type = "er" ->
            Compare(op, omega * (k * k + (2 * n + 1) * 10000), -k * 10000)
      [] wave_type = "ig" ->
            Compare(op, omega * omega, k * k + (2 * n + 1) * 10000)
      [] wave_type \in {"eig", "mrg"} ->
            Compare(op, omega * omega, k * omega + 10000)

----------------------------------------------------------------------------
(* _nondim_k_omega: both axes scaled by a positive factor fixed by h.      *)

_nondim_k_omega(wn, fr, h) ==
    [k_nondim     |-> [k \in wn.values |-> k * KScale(h)],
     omega_nondim |-> [f \in fr.values |-> f * OmegaScale(h)]]

----------------------------------------------------------------------------
(* wave_mask *)

(* Variant of MsgWaveType: the wave type is not put into the message. *)
MsgWaveTypeBare(wave_type) == "Unsupported wave_type."

MsgWaveType(wave_type) == "Unsupported wave_type \"" \o wave_type \o "\"."

(* func(op, omega, k, n) broadcast over the grid, at equivalent depth h. *)
Dispersion(wn, fr, wave_type, op, h, n) ==
    LET nd == _nondim_k_omega(wn, fr, h)
    IN  {b \in Bins(wn, fr) :
            wave_func(wave_type, op, nd.omega_nondim[b[2]], nd.k_nondim[b[1]], n)}

(* Variants of HminMinusOp and HmaxMinusOp: the minus branch always uses   *)
(* the comparison of the plus branch.                                      *)
HminMinusOpSame(wave_type) == "gt"

HmaxMinusOpSame(wave_type) == "lt"

(* The comparison the minus branch uses in the hmin block ... *)
HminMinusOp(wave_type) ==
    IF wave_type \in {"ig", "eig", "mrg"} THEN "gt" ELSE "lt"

(* ... and in the hmax block. *)
HmaxMinusOp(wave_type) ==
    IF wave_type \in {"ig", "eig", "mrg"} THEN "lt" ELSE "gt"

HminPlus(wn, fr, wave_type, hmin, n) ==
    IF IsSome(hmin)
    THEN <<Dispersion(wn, fr, wave_type, "gt", Val(hmin), n)>> ELSE <<>>

HminMinus(wn, fr, wave_type, hmin, n) ==
    IF IsSome(hmin)
    THEN <<Dispersion(wn, fr, wave_type, HminMinusOp(wave_type), Val(hmin), n)>>
    ELSE <<>>

HmaxPlus(wn, fr, wave_type, hmax, n) ==
    IF IsSome(hmax)
    THEN <<Dispersion(wn, fr, wave_type, "lt", Val(hmax), n)>> ELSE <<>>

HmaxMinus(wn, fr, wave_type, hmax, n) ==
    IF IsSome(hmax)
    THEN <<Dispersion(wn, fr, wave_type, HmaxMinusOp(wave_type), Val(hmax), n)>>
    ELSE <<>>

wave_mask(old, wavenumber0, frequency0, wave_type, fmin, fmax, kmin, kmax, hmin, hmax, n) ==
    LET w  == _wrap_to_xarray(wavenumber0, frequency0)
        wn == w[1]
        fr == w[2]
        kf == kf_mask(old, wn, fr, fmin, fmax, kmin, kmax, TRUE)
        logical_plus  == kf.res.plus \o HminPlus(wn, fr, wave_type, hmin, n)
                                     \o HmaxPlus(wn, fr, wave_type, hmax, n)
        logical_minus == kf.res.minus \o HminMinus(wn, fr, wave_type, hmin, n)
                                      \o HmaxMinus(wn, fr, wave_type, hmax, n)
    IN  IF kf.res.kind = "error" THEN kf
        ELSE IF wave_type \notin wave_types
        THEN [res |-> Raise("ValueError", MsgWaveType(wave_type)),
              lists |-> kf.lists]
        ELSE [res |-> MaskResult(_combine_plus_minus(logical_plus, logical_minus)),
              lists |-> [plus |-> logical_plus, minus |-> logical_minus]]

----------------------------------------------------------------------------
(* The calls a caller can make.  A call record carries every argument;     *)
(* the ones its function does not take are left at fixed values.           *)

KfCalls ==
    [fn : {"kf_mask"}, fmin : FBounds, fmax : FBounds, kmin : KBounds,
     kmax : KBounds, return_individual : BOOLEAN, wave_type : {""},
     hmin : {None}, hmax : {None}, n : {1}]

WaveCalls ==
    [fn : {"wave_mask"}, fmin : FBounds, fmax : FBounds, kmin : KBounds,
     kmax : KBounds, return_individual : {FALSE}, wave_type : WaveTypeInputs,
     hmin : HminValues, hmax : HmaxValues, n : 1..MaxN]

TdCalls ==
    [fn : {"td_mask"}, fmin : FBounds, fmax : FBounds, kmin : KBounds,
     kmax : KBounds, return_individual : {FALSE}, wave_type : {""},
     hmin : {None}, hmax : {None}, n : {1}]

Calls == KfCalls \cup WaveCalls \cup TdCalls

(* The calls made when several follow one another. *)
SeqCalls ==
    {c \in Calls :
        /\ c.fmin \in {None, Some(0), Some(1)}
        /\ c.fmax = Some(8)
        /\ c.kmin = None
        /\ c.kmax \in {None, Some(-6)}
        /\ c.wave_type \in {"", "kelvin", "ig", "bogus"}
        /\ c.fn = "wave_mask" => c.hmax = Some(90)
        /\ c.n = 1}

(* One call c on the axes wn0, fr0, with the lists `old` of the call       *)
(* before it still around.                                                 *)
Invoke(old, wn0, fr0, c) ==
    CASE c.fn = "kf_mask" ->
            kf_mask(old, wn0, fr0, c.fmin, c.fmax, c.kmin, c.kmax,
                    c.return_individual)
      [] c.fn = "wave_mask" ->
            wave_mask(old, wn0, fr0, c.wave_type, c.fmin, c.fmax, c.kmin,
                      c.kmax, c.hmin, c.hmax, c.n)
      [] c.fn = "td_mask" ->
            td_mask(old, wn0, fr0, c.fmin, c.fmax, c.kmin, c.kmax)

TypeOK ==
    /\ <<wavenumber, frequency>> \in Grids
    /\ call \in Calls
    /\ pc \in {"call", "done"}
    /\ result.kind \in {"none", "mask", "lists", "error"}
    /\ ncalls \in 0..MaxCalls

(* A call is pending on some grid; nothing has been built yet. *)
Start(calls) ==
    /\ \E g \in Grids : wavenumber = g[1] /\ frequency = g[2]
    /\ call \in calls
    /\ pc = "call"
    /\ result = NoResult
    /\ lists = NoLists
    /\ ncalls = 0

Init == Start(Calls)

Return(r) ==
    /\ result' = r.res
    /\ lists' = r.lists
    /\ pc' = "done"
    /\ ncalls' = ncalls + 1
    /\ UNCHANGED <<wavenumber, frequency, call>>

KfMask ==
    /\ pc = "call"
    /\ call.fn = "kf_mask"
    /\ Return(Invoke(lists, wavenumber, frequency, call))

WaveMask ==
    /\ pc = "call"
    /\ call.fn = "wave_mask"
    /\ Return(Invoke(lists, wavenumber, frequency, call))

TdMask ==
    /\ pc = "call"
    /\ call.fn = "td_mask"
    /\ Return(Invoke(lists, wavenumber, frequency, call))

Next == KfMask \/ WaveMask \/ TdMask

Spec == Init /\ [][Next]_vars

(* The caller goes on to its next call on the same axes. *)
NextCall ==
    /\ pc = "done"
    /\ ncalls < MaxCalls
    /\ call' \in SeqCalls
    /\ pc' = "call"
    /\ result' = NoResult
    /\ UNCHANGED <<wavenumber, frequency, lists, ncalls>>

SeqInit == Start(SeqCalls)

SeqNext == KfMask \/ WaveMask \/ TdMask \/ NextCall

SeqSpec == SeqInit /\ [][SeqNext]_vars

----------------------------------------------------------------------------
(* Properties.  They are stated bin by bin on the caller's axes, in the    *)
(* words of the specification, not through the operators above.            *)

G == wavenumber.values \X frequency.values

Done(fn) == pc = "done" /\ call.fn = fn

(* the bounds a caller may supply *)
BoundsValid(c) ==
    /\ IsSome(c.fmin) => Val(c.fmin) > 0
    /\ IsSome(c.fmax) => Val(c.fmax) > 0
    /\ (IsSome(c.fmin) /\ IsSome(c.fmax)) => Val(c.fmin) < Val(c.fmax)
    /\ (IsSome(c.kmin) /\ IsSome(c.kmax)) => Val(c.kmin) < Val(c.kmax)

AllSupplied(c) ==
    IsSome(c.fmin) /\ IsSome(c.fmax) /\ IsSome(c.kmin) /\ IsSome(c.kmax)

BoxPlusAt(c, k, f) ==
    /\ f > 0
    /\ IsSome(c.fmin) => f > Val(c.fmin)
    /\ IsSome(c.fmax) => f < Val(c.fmax)
    /\ IsSome(c.kmin) => k > Val(c.kmin)
    /\ IsSome(c.kmax) => k < Val(c.kmax)

BoxMinusAt(c, k, f) ==
    /\ f < 0
    /\ IsSome(c.fmin) => f < -Val(c.fmin)
    /\ IsSome(c.fmax) => f > -Val(c.fmax)
    /\ IsSome(c.kmin) => k < -Val(c.kmin)
    /\ IsSome(c.kmax) => k > -Val(c.kmax)

GridClosedUnderNegation ==
    /\ \A k \in wavenumber.values : -k \in wavenumber.values
    /\ \A f \in frequency.values : -f \in frequency.values

Mirrored(mask) == \A b \in G : (b \in mask) <=> (<<-b[1], -b[2]>> \in mask)

C2_Disp(c, op, h) ==
    {b \in G : wave_func(c.wave_type, op,
                         _nondim_k_omega(wavenumber, frequency, h).omega_nondim[b[2]],
                         _nondim_k_omega(wavenumber, frequency, h).k_nondim[b[1]],
                         c.n)}

C2_Flip(op) == IF op = "gt" THEN "lt" ELSE "gt"

C2_MinusOp(c, op) ==
    IF c.wave_type \in {"ig", "eig", "mrg"} THEN op ELSE C2_Flip(op)

C2_Box(c) ==
    kf_mask(NoLists, wavenumber, frequency, c.fmin, c.fmax, c.kmin, c.kmax,
            TRUE).res

C2_Plus(c) ==
    C2_Box(c).plus
      \o (IF IsSome(c.hmin) THEN <<C2_Disp(c, "gt", Val(c.hmin))>> ELSE <<>>)
      \o (IF IsSome(c.hmax) THEN <<C2_Disp(c, "lt", Val(c.hmax))>> ELSE <<>>)

C2_Minus(c) ==
    C2_Box(c).minus
      \o (IF IsSome(c.hmin)
          THEN <<C2_Disp(c, C2_MinusOp(c, "gt"), Val(c.hmin))>> ELSE <<>>)
      \o (IF IsSome(c.hmax)
          THEN <<C2_Disp(c, C2_MinusOp(c, "lt"), Val(c.hmax))>> ELSE <<>>)

C2_BranchDirection ==
    (Done("wave_mask") /\ call.wave_type \in wave_types /\ BoundsValid(call)) =>
        /\ lists.plus = C2_Plus(call)
        /\ lists.minus = C2_Minus(call)
        /\ result.kind = "mask"
        /\ \A b \in G :
              (b \in result.mask) <=>
                  \/ \A i \in 1..Len(lists.plus) : b \in lists.plus[i]
                  \/ \A i \in 1..Len(lists.minus) : b \in lists.minus[i]

C2_Witness ==
    /\ Done("wave_mask") /\ call.wave_type = "kelvin" /\ BoundsValid(call)
    /\ IsSome(call.hmin) /\ IsSome(call.hmax)
    /\ C2_Disp(call, "gt", Val(call.hmin)) # C2_Disp(call, "lt", Val(call.hmin))
    /\ \E b \in result.mask : b[2] > 0
    /\ \E b \in result.mask : b[2] < 0

(* C3: with valid bounds, td_mask marks bin (k, f) True iff the box        *)
(* plus-branch predicates hold and 84 f + k - 22 < 0 and                   *)
(* 210 f + 2.5 k - 13 > 0, or the box minus-branch predicates hold and     *)
(* 84 f + k + 22 > 0 and 210 f + 2.5 k + 13 < 0 (f is b[2]/20, so the      *)
(* first pair is written times 20 and the second times 40).                *)
C3_TdAt(c, k, f) ==
    \/ /\ BoxPlusAt(c, k, f)
       /\ 84 * f + 20 * k - 440 < 0
       /\ 420 * f + 100 * k - 520 > 0
    \/ /\ BoxMinusAt(c, k, f)
       /\ 84 * f + 20 * k + 440 > 0
       /\ 420 * f + 100 * k + 520 < 0

C3_TdMask ==
    (Done("td_mask") /\ BoundsValid(call)) =>
        /\ result.kind = "mask"
        /\ \A b \in G : (b \in result.mask) <=> C3_TdAt(call, b[1], b[2])

(* the default call on a grid holding the bins (-10, 0.1) and (10, 0.1) *)
C3_Witness ==
    /\ Done("td_mask")
    /\ call.fmin = None /\ call.fmax = None
    /\ call.kmin = Some(-20) /\ call.kmax = Some(-6)
    /\ {<<-10, 2>>, <<10, 2>>} \subseteq G
    /\ <<-10, 2>> \notin result.mask /\ <<10, 2>> \notin result.mask
    /\ <<-10, 5>> \in result.mask /\ <<10, -5>> \in result.mask

(* C4: kf_mask fails, with a message naming the offending parameter and    *)
(* constraint and without returning a mask or lists, exactly when a        *)
(* supplied fmin is <= 0, a supplied fmax is <= 0, fmin >= fmax or         *)
(* kmin >= kmax; wave_mask and td_mask with such bounds fail the same way. *)
C4_Names(msg, c) ==
    \/ msg = "Frequency \"fmin\" must be greater than 0."
         /\ IsSome(c.fmin) /\ Val(c.fmin) <= 0
    \/ msg = "Frequency \"fmax\" must be greater than 0."
         /\ IsSome(c.fmax) /\ Val(c.fmax) <= 0
    \/ msg = "\"fmin\" should be smaller than \"fmax\"."
         /\ IsSome(c.fmin) /\ IsSome(c.fmax) /\ Val(c.fmin) >= Val(c.fmax)
    \/ msg = "Wavenumber \"kmin\" should be smaller than \"kmax\"."
         /\ IsSome(c.kmin) /\ IsSome(c.kmax) /\ Val(c.kmin) >= Val(c.kmax)

C4_BoundsError(r, c) ==
    r.kind = "error" /\ r.exc = "AssertionError" /\ C4_Names(r.msg, c)

C4_Validation ==
    pc = "done" =>
        /\ ~BoundsValid(call) => C4_BoundsError(result, call)
        /\ (result.kind = "error" /\ result.exc = "AssertionError")
                => ~BoundsValid(call)
        /\ (call.fn = "kf_mask" /\ BoundsValid(call)) =>
                result.kind = (IF call.return_individual THEN "lists" ELSE "mask")

C4_Witness ==
    /\ Done("kf_mask") /\ call.return_individual
    /\ IsSome(call.fmin) /\ call.fmin = call.fmax /\ Val(call.fmin) > 0
    /\ BoundsValid([call EXCEPT !.fmax = None])
    /\ result.kind = "error"

(* C5 as stated: whenever wave_type is not recognised, wave_mask fails     *)
(* with an error naming the bad wave type, whatever the other arguments.   *)
C5_NamesWaveType(r, c) ==
    /\ r.kind = "error" /\ r.exc = "ValueError"
    /\ r.msg = "Unsupported wave_type \"" \o c.wave_type \o "\"."

C5_AsStated ==
    (Done("wave_mask") /\ call.wave_type \notin wave_types) =>
        C5_NamesWaveType(result, call)

(* C5 amended: whenever wave_type is not recognised, wave_mask returns no  *)
(* mask; the error names the bad wave type when the bounds pass kf_mask's  *)
(* validation, and is kf_mask's bounds error when they do not.             *)
C5_UnknownWaveType ==
    (Done("wave_mask") /\ call.wave_type \notin wave_types) =>
        /\ result.kind = "error"
        /\ BoundsValid(call) => C5_NamesWaveType(result, call)
        /\ ~BoundsValid(call) => C4_BoundsError(result, call)

C5_Witness ==
    /\ Done("wave_mask") /\ call.wave_type = "bogus" /\ BoundsValid(call)
    /\ AllSupplied(call) /\ IsSome(call.hmin) /\ IsSome(call.hmax)
    /\ result.kind = "error"

(* C6: on a grid closed under negation and with valid bounds, negative     *)
(* kmin and kmax included, kf_mask's mask is True at (k, f) iff it is      *)
(* True at (-k, -f).                                                       *)
C6_KfSymmetry ==
    (Done("kf_mask") /\ ~call.return_individual /\ BoundsValid(call)
        /\ GridClosedUnderNegation) =>
        Mirrored(result.mask)

C6_Witness ==
    /\ Done("kf_mask") /\ ~call.return_individual /\ GridClosedUnderNegation
    /\ call.kmin = Some(-20) /\ call.kmax = Some(-6)
    /\ \E b \in result.mask : b[2] > 0 /\ b[1] < 0

(* C7: on a grid closed under negation, for a recognised wave type and     *)
(* valid bounds, wave_mask's mask is True at (k, f) iff it is True at      *)
(* (-k, -f).                                                               *)
C7_WaveSymmetry ==
    (Done("wave_mask") /\ call.wave_type \in wave_types /\ BoundsValid(call)
        /\ GridClosedUnderNegation) =>
        Mirrored(result.mask)

C7_Witness ==
    /\ Done("wave_mask") /\ call.wave_type = "er" /\ GridClosedUnderNegation
    /\ IsSome(call.hmin) /\ IsSome(call.hmax) /\ BoundsValid(call)
    /\ \E b \in result.mask : b[2] > 0
    /\ \E b \in G : /\ b[2] > 0 /\ b \notin result.mask
                    /\ BoxPlusAt(call, b[1], b[2])

(* C8 as stated: with all four bounds supplied and valid, kf_mask selects  *)
(* the bins with f in [fmin, fmax] and k in [kmin, kmax] or f in           *)
(* [-fmax, -fmin] and k in [-kmax, -kmin], the intervals closed.           *)
C8_ClosedBox ==
    (Done("kf_mask") /\ ~call.return_individual /\ BoundsValid(call)
        /\ AllSupplied(call)) =>
        \A b \in G :
            (b \in result.mask) <=>
               \/ /\ Val(call.fmin) <= b[2] /\ b[2] <= Val(call.fmax)
                  /\ Val(call.kmin) <= b[1] /\ b[1] <= Val(call.kmax)
               \/ /\ -Val(call.fmax) <= b[2] /\ b[2] <= -Val(call.fmin)
                  /\ -Val(call.kmax) <= b[1] /\ b[1] <= -Val(call.kmin)

(* C9: after any sequence of calls a call returns what the same call       *)
(* returns as the very first call, and the caller's axes are never         *)
(* changed.                                                                *)
C9_NoSharedState ==
    /\ [](pc = "done" =>
            result = Invoke(NoLists, wavenumber, frequency, call).res)
    /\ [][wavenumber' = wavenumber /\ frequency' = frequency]_vars

C9_Witness ==
    /\ pc = "done" /\ ncalls = MaxCalls
    /\ call.fn = "kf_mask" /\ call.return_individual
    /\ result.kind = "lists" /\ Len(result.plus) = 2

(* C10: no builder selects a bin whose frequency is 0. *)
C10_ZeroFrequency ==
    (pc = "done" /\ result.kind = "mask") =>
        \A b \in result.mask : b[2] # 0

C10_Witness ==
    /\ pc = "done" /\ result.kind = "mask"
    /\ call.fmin = None /\ call.fmax = None /\ call.kmin = None
    /\ call.kmax = None /\ call.hmin = None /\ call.hmax = None
    /\ \E b \in G : b[2] = 0
    /\ \E b \in result.mask : b[2] > 0

====
